---- MODULE Spec2Model ----
(***************************************************************************)
(* The reconciliation loop of the Cloudflare DNS updater (src/Main.cpp,    *)
(* main): load the configuration, then forever wait for the polling        *)
(* interval, ask the IP echo service for the public address, and when it   *)
(* differs from the last committed address send one PUT per configured     *)
(* DNS entry and commit the address only if every PUT answered 200.        *)
(*                                                                         *)
(* A step of the model is the code that runs between two blocking network  *)
(* calls.  Strings are TLA+ strings; Len, SubSeq and \o act on them.       *)
(***************************************************************************)
EXTENDS Integers, Sequences, FiniteSets, TLC

VARIABLES
    pc,              \* position of main: "start", "exited", "Waiting",
                     \* "Resolving" (cpr::Get in flight), "Updating"
                     \* (cpr::Put in flight), "terminated" (uncaught throw)
    entries,         \* dns_data.entries
    DebugOutput,     \* static bool DebugOutput
    update_rate,     \* unsigned int update_rate (seconds)
    ip_address,      \* std::string ip_address
    old_ip_address,  \* std::string old_ip_address
    first_run,       \* bool first_run
    elapsed,         \* whole seconds between timer_start and now, saturating
    error,           \* bool error
    response,        \* cpr::Response response (status_code, text)
    payload,         \* std::vector<nlohmann::json> payload
    records,         \* std::vector<std::string> records
    i,               \* loop index of the PUT loop
    gets,            \* history: cpr::Get calls issued in the current cycle
    puts,            \* history: cpr::Put requests issued in the current cycle
    outcomes,        \* history: status codes of the PUTs that returned
    cycle,           \* history: how the current / latest cycle went
    prev,            \* history: how the cycle before that one went
    cause,           \* history: what ended the process: "load" (LoadData
                     \* returned false) or what threw ("resolver",
                     \* "updater", "config")
    persistent,      \* history: every batch so far had a failed PUT
    sinceEnd         \* history: whole seconds since the latest cycle ended
                     \* (since the loop was entered, before that), saturating

vars == <<pc, entries, DebugOutput, update_rate, ip_address, old_ip_address,
          first_run, elapsed, error, response, payload, records, i,
          gets, puts, outcomes, cycle, prev, cause, persistent, sinceEnd>>

(***************************************************************************)
(* Bounds of the model.                                                    *)
(***************************************************************************)
MaxEntries == 2      \* at most this many <entry> elements in data.dns
MaxRate == 2         \* -r takes a value in 0..MaxRate
SizeBits == 16       \* modelled width of std::string::size_type

(***************************************************************************)
(* Program constants.                                                      *)
(***************************************************************************)
HttpOk == 200
Invalid == "invalid"
Baseline == "0.0.0.0"
MsPerSecond == 1000

Min(a, b) == IF a < b THEN a ELSE b

(***************************************************************************)
(* std::string: size_type arithmetic wraps, npos is the largest value.     *)
(***************************************************************************)
SizeMod == 2 ^ SizeBits
Npos == SizeMod - 1

\* json.find_first_of(c): zero-based index of the first c, npos when absent
FindFirstOf(s, c) ==
    IF \E k \in 1..Len(s) : SubSeq(s, k, k) = c
    THEN (CHOOSE k \in 1..Len(s) :
              /\ SubSeq(s, k, k) = c
              /\ \A j \in 1..(k - 1) : SubSeq(s, j, j) # c) - 1
    ELSE Npos

\* s.substr(pos, count) throws std::out_of_range when pos > size()
SubstrThrows(s, pos) == pos > Len(s)

\* s.substr(pos, count): the characters [pos, pos + min(count, size() - pos))
Substr(s, pos, count) == SubSeq(s, pos + 1, pos + Min(count, Len(s) - pos))

\* json.find_first_of(':') + 2, in size_type arithmetic
IpStart(json) == (FindFirstOf(json, ":") + 2) % SizeMod

\* the first substr of the IP extraction throws (the second starts at 0)
ParseIpThrows(json) == SubstrThrows(json, IpStart(json))

\* sub = json.substr(find + 2); ip_address = sub.substr(0, sub.length() - 2)
ParseIp(json) ==
    LET sub == Substr(json, IpStart(json), Npos)
    IN  Substr(sub, 0, (Len(sub) - 2) % SizeMod)

(***************************************************************************)
(* std::stoi(entry.ttl): throws std::invalid_argument when no digits lead. *)
(***************************************************************************)
Digits == {"0", "1", "2", "3", "4", "5", "6", "7", "8", "9"}

StoiThrows(s) == Len(s) = 0 \/ SubSeq(s, 1, 1) \notin Digits

\* the value std::stoi returns: the leading decimal digits
DigitVal(c) == CHOOSE d \in 0..9 : ToString(d) = c

RECURSIVE StoiFrom(_, _, _)
StoiFrom(s, k, acc) ==
    IF k > Len(s) \/ SubSeq(s, k, k) \notin Digits
    THEN acc
    ELSE StoiFrom(s, k + 1, acc * 10 + DigitVal(SubSeq(s, k, k)))

Stoi(s) == StoiFrom(s, 1, 0)

\* stob(s, false): 0/1 first, then boolalpha; never throws, false otherwise
Stob(s) == s \in {"1", "true"}

\* nlohmann::json::parse(post.text) returns (does not throw) on a JSON object
JsonParses(text) ==
    /\ Len(text) >= 2
    /\ SubSeq(text, 1, 1) = "{"
    /\ SubSeq(text, Len(text), Len(text)) = "}"

(***************************************************************************)
(* Inputs: the configuration file, the echo service, the DNS provider.     *)
(***************************************************************************)
ZoneRecord == "zones/z/dns_records/"
TtlTexts == {"120", "auto"}

\* DNS_Entry: the k-th <entry> of data.dns with the given ttl attribute
DNS_Entry(k, ttl) ==
    [prefix |-> "host" \o ToString(k), type |-> "A", proxied |-> "true",
     ttl |-> ttl, comment |-> "ddns", token |-> "rec" \o ToString(k)]

\* the entry lists LoadData can produce
Configs ==
    UNION { { [k \in 1..n |-> DNS_Entry(k, t[k])] : t \in [1..n -> TtlTexts] } :
            n \in 0..MaxEntries }

Addresses == {Baseline, "1.2.3.4", "5.6.7.8"}

\* the body api.ipify.org?format=json answers for an address
EchoBody(ip) == "{\"ip\":\"" \o ip \o "\"}"

\* what cpr::Get can return: a 200 with a body, or a failure
GetResponses ==
    { [status_code |-> HttpOk, text |-> EchoBody(a)] : a \in Addresses }
    \cup { [status_code |-> HttpOk, text |-> t] : t \in {"", "{}"} }
    \cup { [status_code |-> c, text |-> ""] : c \in {0, 500} }

\* what cpr::Put can return
PutResponses ==
    { [status_code |-> HttpOk, text |-> "{\"success\":true}"],
      [status_code |-> HttpOk, text |-> "<html>"],
      [status_code |-> 400, text |-> "{\"success\":false}"],
      [status_code |-> 0, text |-> ""] }

(***************************************************************************)
(* The decisions of the loop body.                                         *)
(***************************************************************************)
\* faulty variant: any answer that carries an HTTP status counts as a success
StatusOkAnyAnswer(code) == code # 0

\* response.status_code == 200L, post.status_code == 200
StatusOk(code) == code = HttpOk

\* faulty variant: the timer test never holds the loop back
TooEarlyNever(secs, rate) == FALSE

\* elasped.count() < static_cast<double>(update_rate) * 1000.0
TooEarly(secs, rate) == secs * MsPerSecond < rate * MsPerSecond

\* faulty variant: timer_start is not set when the timer test passes
TimerNeverReset(first, secs) == secs

\* timer_start after the timer test: set to now (nothing elapsed) when the
\* test passed, left alone on the first run, which skips the test
TimerAfterTest(first, secs) == IF first THEN secs ELSE 0

\* faulty variant: the new address is compared with the unresolved sentinel
IpUnchangedVsSentinel(ip, old) == ip = Invalid

\* ip_address == old_ip_address
IpUnchanged(ip, old) == ip = old

\* the json object emplaced for one entry
PayloadOf(ip, entry) ==
    [content |-> ip, name |-> entry.prefix, proxied |-> Stob(entry.proxied),
     type |-> entry.type, comment |-> entry.comment, id |-> entry.token,
     ttl |-> Stoi(entry.ttl)]

\* dns_data.dns_record + entry.token
RecordOf(entry) == ZoneRecord \o entry.token

\* number of entries the build loop handles before std::stoi throws
BuiltBeforeThrow(es) ==
    IF \E k \in 1..Len(es) : StoiThrows(es[k].ttl)
    THEN (CHOOSE k \in 1..Len(es) :
              /\ StoiThrows(es[k].ttl)
              /\ \A j \in 1..(k - 1) : ~StoiThrows(es[j].ttl)) - 1
    ELSE Len(es)

\* faulty variant: an entry whose ttl does not convert ends the build loop
\* quietly, and the requests built so far are sent
BuildThrowsNever(es) == FALSE

BuildThrows(es) == BuiltBeforeThrow(es) < Len(es)

BuildPayload(ip, es) == [k \in 1..BuiltBeforeThrow(es) |-> PayloadOf(ip, es[k])]

BuildRecords(es) == [k \in 1..BuiltBeforeThrow(es) |-> RecordOf(es[k])]

\* faulty variant: the requests are taken from the back of the vectors
PutRequestReversed(recs, pl, k) ==
    [url |-> recs[Len(recs) - k], body |-> pl[Len(pl) - k]]

\* the cpr::Put request of loop index k (zero-based, as in the code)
PutRequest(recs, pl, k) == [url |-> recs[k + 1], body |-> pl[k + 1]]

\* for (unsigned int i = 0; i < payload.size(); i++)
NextIndex(k) == k + 1

InLoop(k, size) == k < size

\* the else branch of the status test: error = true
ErrorAfter(err, code) == IF StatusOk(code) THEN err ELSE TRUE

\* the success branch under DebugOutput parses the body and may throw
PutHandlingThrows(debug, post) ==
    StatusOk(post.status_code) /\ debug /\ ~JsonParses(post.text)

\* faulty variant: the address is committed whether or not a PUT failed
CommittedIpAlways(err, ip, old) == ip

\* faulty variant: the else branch that commits the address is missing
CommittedIpNever(err, ip, old) == old

\* faulty variant: the failed batch leaves the observed address in place
ObservedIpKept(err, ip) == ip

\* if (error) ip_address = "invalid"; else old_ip_address = ip_address;
CommittedIp(err, ip, old) == IF err THEN old ELSE ip

ObservedIp(err, ip) == IF err THEN Invalid ELSE ip

(***************************************************************************)
(* History records: how a cycle went, and the address it resolved.         *)
(***************************************************************************)
NoCycle == [kind |-> "none", ip |-> ""]

Outcome(kind, ip) == [kind |-> kind, ip |-> ip]

NoResponse == [status_code |-> 0, text |-> ""]

(***************************************************************************)
(* The state after the declarations of main and the command line.          *)
(***************************************************************************)
Init ==
    /\ pc = "start"
    /\ entries = << >>
    /\ DebugOutput \in BOOLEAN
    /\ update_rate \in 0..MaxRate
    /\ ip_address = Invalid
    /\ old_ip_address = Baseline
    /\ first_run = TRUE
    /\ elapsed = 0
    /\ error = FALSE
    /\ response = NoResponse
    /\ payload = << >>
    /\ records = << >>
    /\ i = 0
    /\ gets = 0
    /\ puts = << >>
    /\ outcomes = << >>
    /\ cycle = NoCycle
    /\ prev = NoCycle
    /\ cause = "none"
    /\ persistent = TRUE
    /\ sinceEnd = 0

\* faulty variant: main ignores that LoadData returned false and goes on
LoadDataFailsIgnored ==
    /\ pc = "start"
    /\ pc' = "Waiting"
    /\ cause' = "load"
    /\ UNCHANGED <<entries, DebugOutput, update_rate, ip_address,
                   old_ip_address, first_run, elapsed, error, response,
                   payload, records, i, gets, puts, outcomes, cycle, prev,
                   persistent, sinceEnd>>

\* LoadData returns false: main flushes the log and returns 0
LoadDataFails ==
    /\ pc = "start"
    /\ pc' = "exited"
    /\ cause' = "load"
    /\ UNCHANGED <<entries, DebugOutput, update_rate, ip_address,
                   old_ip_address, first_run, elapsed, error, response,
                   payload, records, i, gets, puts, outcomes, cycle, prev,
                   persistent, sinceEnd>>

\* LoadData returns true with the entries of data.dns; timer_start = now
LoadDataLoads ==
    /\ pc = "start"
    /\ \E cfg \in Configs : entries' = cfg
    /\ pc' = "Waiting"
    /\ elapsed' = 0
    /\ UNCHANGED <<DebugOutput, update_rate, ip_address, old_ip_address,
                   first_run, error, response, payload, records, i, gets,
                   puts, outcomes, cycle, prev, cause, persistent, sinceEnd>>

\* the clock advances by a second while main runs or blocks in a call
Tick ==
    /\ pc \in {"Waiting", "Resolving", "Updating"}
    /\ elapsed < MaxRate \/ sinceEnd < MaxRate
    /\ elapsed' = Min(elapsed + 1, MaxRate)
    /\ sinceEnd' = Min(sinceEnd + 1, MaxRate)
    /\ UNCHANGED <<pc, entries, DebugOutput, update_rate, ip_address,
                   old_ip_address, first_run, error, response, payload,
                   records, i, gets, puts, outcomes, cycle, prev, cause,
                   persistent>>

\* a loop iteration that finds the interval not yet over: continue
SpinWait ==
    /\ pc = "Waiting"
    /\ ~first_run
    /\ TooEarly(elapsed, update_rate)
    /\ UNCHANGED vars

\* a loop iteration that passes the timer test and issues cpr::Get
StartCycle ==
    /\ pc = "Waiting"
    /\ first_run \/ ~TooEarly(elapsed, update_rate)
    /\ elapsed' = TimerAfterTest(first_run, elapsed)
    /\ first_run' = FALSE
    /\ error' = FALSE
    /\ pc' = "Resolving"
    /\ gets' = 1
    /\ puts' = << >>
    /\ outcomes' = << >>
    /\ prev' = cycle
    /\ cycle' = Outcome("running", "")
    /\ UNCHANGED <<entries, DebugOutput, update_rate, ip_address,
                   old_ip_address, response, payload, records, i, cause,
                   persistent, sinceEnd>>

\* cpr::Get returns resp: the code from the status test to the first
\* cpr::Put, or to the end of the iteration when no PUT is sent
HandleGetResponse(resp) ==
    /\ pc = "Resolving"
    /\ response' = resp
    /\ IF ~StatusOk(resp.status_code)
       THEN /\ ip_address' = Invalid
            /\ pc' = "Waiting"
            /\ cycle' = Outcome("resolver_failed", "")
            /\ UNCHANGED <<old_ip_address, payload, records, i, puts, cause>>
       ELSE IF ParseIpThrows(resp.text)
       THEN /\ pc' = "terminated"
            /\ cause' = "resolver"
            /\ cycle' = Outcome("crashed", "")
            /\ UNCHANGED <<ip_address, old_ip_address, payload, records, i,
                           puts>>
       ELSE LET ip == ParseIp(resp.text) IN
            /\ ip_address' = ip
            /\ IF IpUnchanged(ip, old_ip_address)
               THEN /\ pc' = "Waiting"
                    /\ cycle' = Outcome("unchanged", ip)
                    /\ UNCHANGED <<old_ip_address, payload, records, i, puts,
                                   cause>>
               ELSE IF BuildThrows(entries)
               THEN /\ payload' = BuildPayload(ip, entries)
                    /\ records' = BuildRecords(entries)
                    /\ pc' = "terminated"
                    /\ cause' = "config"
                    /\ cycle' = Outcome("crashed", ip)
                    /\ UNCHANGED <<old_ip_address, i, puts>>
               ELSE IF InLoop(0, Len(BuildPayload(ip, entries)))
               THEN /\ payload' = BuildPayload(ip, entries)
                    /\ records' = BuildRecords(entries)
                    /\ i' = 0
                    /\ puts' = <<PutRequest(records', payload', 0)>>
                    /\ pc' = "Updating"
                    /\ cycle' = Outcome("running", ip)
                    /\ UNCHANGED <<old_ip_address, cause>>
               ELSE /\ old_ip_address' = CommittedIp(error, ip, old_ip_address)
                    /\ pc' = "Waiting"
                    /\ cycle' = Outcome("committed", ip)
                    /\ UNCHANGED <<payload, records, i, puts, cause>>
    /\ persistent' = IF cycle'.kind = "committed" THEN FALSE ELSE persistent
    /\ sinceEnd' = IF pc' = "Waiting" THEN 0 ELSE sinceEnd
    /\ UNCHANGED <<entries, DebugOutput, update_rate, first_run, elapsed,
                   error, gets, outcomes, prev>>

\* cpr::Put of index i returns post: the code from the status test to the
\* next cpr::Put, or through the commit test to the end of the iteration
HandlePutResponse(post) ==
    /\ pc = "Updating"
    /\ outcomes' = Append(outcomes, post.status_code)
    /\ IF PutHandlingThrows(DebugOutput, post)
       THEN /\ pc' = "terminated"
            /\ cause' = "updater"
            /\ cycle' = Outcome("crashed", ip_address)
            /\ UNCHANGED <<ip_address, old_ip_address, error, payload,
                           records, i, puts>>
       ELSE /\ error' = ErrorAfter(error, post.status_code)
            /\ IF InLoop(NextIndex(i), Len(payload))
               THEN /\ i' = NextIndex(i)
                    /\ puts' = Append(puts, PutRequest(records, payload, i'))
                    /\ UNCHANGED <<pc, ip_address, old_ip_address, payload,
                                   records, cycle, cause>>
               ELSE /\ ip_address' = ObservedIp(error', ip_address)
                    /\ old_ip_address' =
                           CommittedIp(error', ip_address, old_ip_address)
                    /\ cycle' = Outcome(IF error' THEN "rolled_back"
                                                  ELSE "committed", ip_address)
                    /\ pc' = "Waiting"
                    /\ payload' = << >>
                    /\ records' = << >>
                    /\ i' = 0
                    /\ UNCHANGED <<puts, cause>>
    /\ persistent' = IF pc' # "Updating" /\ ~error' THEN FALSE ELSE persistent
    /\ sinceEnd' = IF pc' = "Waiting" THEN 0 ELSE sinceEnd
    /\ UNCHANGED <<entries, DebugOutput, update_rate, first_run, elapsed,
                   response, gets, prev>>

GetReturns == \E resp \in GetResponses : HandleGetResponse(resp)

PutReturns == \E post \in PutResponses : HandlePutResponse(post)

Next ==
    \/ LoadDataFails
    \/ LoadDataLoads
    \/ Tick
    \/ SpinWait
    \/ StartCycle
    \/ GetReturns
    \/ PutReturns

Spec == Init /\ [][Next]_vars

\* the clock advances, the loop keeps iterating and every blocking call
\* returns
FairSpec ==
    /\ Spec
    /\ WF_vars(Tick)
    /\ WF_vars(StartCycle)
    /\ WF_vars(GetReturns)
    /\ WF_vars(PutReturns)

(***************************************************************************)
(* Shorthands for the properties.                                          *)
(***************************************************************************)
\* the cycle is over: back at the timer test, or the process has died
CycleOver == pc \in {"Waiting", "terminated"} /\ cycle.kind \notin {"none", "running"}

\* the step in which cpr::Get returns
GetReturned == pc = "Resolving" /\ pc' # "Resolving"

\* the step in which the PUT loop runs to its end and the commit test runs
BatchCompleted == pc = "Updating" /\ pc' = "Waiting"

AllSucceeded(codes) == \A k \in 1..Len(codes) : codes[k] = HttpOk

\* the k-th PUT of the cycle addresses the k-th configured entry
AddressesEntry(put, entry) ==
    /\ put.url = ZoneRecord \o entry.token
    /\ put.body.id = entry.token
    /\ put.body.name = entry.prefix

(***************************************************************************)
(* C1: old_ip_address changes only in a step that ends a cycle whose       *)
(* resolver call answered 200, to the address extracted from that answer,  *)
(* and only when a PUT was sent for every configured entry and every one   *)
(* of them answered 200; in every other step it keeps its value.           *)
(***************************************************************************)
C1_CommitOnlyAfterFullSuccess ==
    [][ old_ip_address' # old_ip_address =>
          /\ response'.status_code = HttpOk
          /\ ~ParseIpThrows(response'.text)
          /\ old_ip_address' = ParseIp(response'.text)
          /\ Len(puts') = Len(entries)
          /\ Len(outcomes') = Len(entries)
          /\ AllSucceeded(outcomes')
          /\ pc' = "Waiting" ]_vars

C1_Witness ==
    /\ old_ip_address = "5.6.7.8"
    /\ prev.kind = "rolled_back"
    /\ cycle.kind = "committed"
    /\ Len(outcomes) = Len(entries)
    /\ Len(entries) >= 2

(***************************************************************************)
(* C2: when cpr::Get answers 200 with the address that old_ip_address      *)
(* already holds, the cycle ends at once with no PUT sent and              *)
(* old_ip_address unchanged, in every such cycle, the baseline "0.0.0.0"   *)
(* included.                                                               *)
(***************************************************************************)
C2_UnchangedIpNoUpdates ==
    [][ ( /\ GetReturned
          /\ response'.status_code = HttpOk
          /\ ~ParseIpThrows(response'.text)
          /\ ParseIp(response'.text) = old_ip_address ) =>
          /\ pc' = "Waiting"
          /\ puts' = << >>
          /\ outcomes' = << >>
          /\ old_ip_address' = old_ip_address ]_vars

\* two consecutive unchanged cycles on the baseline, with entries configured
C2_Witness ==
    /\ pc = "Waiting"
    /\ prev = Outcome("unchanged", Baseline)
    /\ cycle = Outcome("unchanged", Baseline)
    /\ Len(entries) >= 1
    /\ puts = << >>

\* two consecutive unchanged cycles on a committed address
C2_WitnessCommitted ==
    /\ pc = "Waiting"
    /\ prev = Outcome("unchanged", "1.2.3.4")
    /\ cycle = Outcome("unchanged", "1.2.3.4")
    /\ Len(entries) >= 1

(***************************************************************************)
(* C3: when cpr::Get answers with a status other than 200, no PUT is       *)
(* sent, old_ip_address is unchanged, ip_address becomes "invalid" and     *)
(* the loop is back at the timer test.                                     *)
(***************************************************************************)
C3_ResolverFailureAborts ==
    [][ (GetReturned /\ response'.status_code # HttpOk) =>
          /\ pc' = "Waiting"
          /\ puts' = << >>
          /\ old_ip_address' = old_ip_address
          /\ ip_address' = Invalid ]_vars

\* a failed resolver call right after a cycle that left a real address
C3_Witness ==
    /\ pc = "Waiting"
    /\ cycle.kind = "resolver_failed"
    /\ prev.kind = "committed"
    /\ response.status_code = 500
    /\ ip_address = Invalid
    /\ old_ip_address = "1.2.3.4"

(***************************************************************************)
(* C4: every batch that starts sends exactly one PUT to each of the N      *)
(* configured entries, whichever of them fail: once the cycle is over,     *)
(* a cycle that sent a PUT has sent N of them, the k-th to the k-th entry. *)
(***************************************************************************)
C4_NoShortCircuit ==
    (CycleOver /\ puts # << >>) =>
        /\ Len(puts) = Len(entries)
        /\ \A k \in 1..Len(puts) : AddressesEntry(puts[k], entries[k])

(***************************************************************************)
(* C5: after a cycle whose batch had a failed PUT, a cycle that resolves   *)
(* the same address again sends a full batch: one PUT for every            *)
(* configured entry, each carrying that address.                           *)
(***************************************************************************)
C5_RetryWholeBatch ==
    (CycleOver /\ prev.kind = "rolled_back" /\ cycle.ip = prev.ip) =>
        /\ Len(puts) = Len(entries)
        /\ \A k \in 1..Len(puts) :
               /\ AddressesEntry(puts[k], entries[k])
               /\ puts[k].body.content = prev.ip

(***************************************************************************)
(* C6: when the PUT loop runs to its end and every PUT answered 200,       *)
(* old_ip_address becomes the address of that batch; and a cycle that      *)
(* follows a committed cycle and resolves the same address ends as         *)
(* unchanged, with no PUT sent.                                            *)
(***************************************************************************)
C6_CommitWhenAllSucceed ==
    /\ [][ (BatchCompleted /\ AllSucceeded(outcomes')) =>
             /\ old_ip_address' = ip_address
             /\ ip_address' = ip_address
             /\ ip_address = ParseIp(response.text) ]_vars
    /\ []( (CycleOver /\ prev.kind = "committed" /\ cycle.ip = prev.ip) =>
             /\ cycle.kind = "unchanged"
             /\ puts = << >>
             /\ old_ip_address = prev.ip )

C6_Witness ==
    /\ pc = "Waiting"
    /\ Len(entries) >= 2
    /\ prev = Outcome("committed", "1.2.3.4")
    /\ cycle = Outcome("unchanged", "1.2.3.4")
    /\ old_ip_address = "1.2.3.4"

(***************************************************************************)
(* C7: when the PUT loop runs to its end and some PUT answered with a      *)
(* status other than 200, ip_address becomes "invalid" and                 *)
(* old_ip_address keeps its value.                                         *)
(***************************************************************************)
C7_RollbackOnFailure ==
    [][ (BatchCompleted /\ ~AllSucceeded(outcomes')) =>
          /\ ip_address' = Invalid
          /\ old_ip_address' = old_ip_address ]_vars

\* a rolled-back batch after an earlier commit: the committed address stays
C7_Witness ==
    /\ pc = "Waiting"
    /\ cycle = Outcome("rolled_back", "5.6.7.8")
    /\ ip_address = Invalid
    /\ old_ip_address = "1.2.3.4"
    /\ Len(outcomes) >= 2
    /\ outcomes[1] # HttpOk
    /\ outcomes[Len(outcomes)] = HttpOk

(***************************************************************************)
(* C8: once the loop has started the process never terminates because of   *)
(* what cpr::Get or cpr::Put returns, whatever the status, the body and    *)
(* the DebugOutput flag.                                                   *)
(***************************************************************************)
C8_NeverTerminates == ~(pc = "terminated" /\ cause \in {"resolver", "updater"})

(***************************************************************************)
(* C9: the PUTs of a batch go out in the order of the configured entries,  *)
(* one at a time: the k-th PUT of a cycle addresses the k-th entry, and a  *)
(* PUT is sent only when every earlier PUT of the cycle has returned.      *)
(***************************************************************************)
C9_SequentialInOrder ==
    /\ Len(puts) <= Len(entries)
    /\ \A k \in 1..Len(puts) : AddressesEntry(puts[k], entries[k])
    /\ Len(outcomes) <= Len(puts)
    /\ Len(puts) <= Len(outcomes) + 1
    /\ (pc = "Updating" => (Len(puts) = Len(outcomes) + 1 /\ i = Len(outcomes)))

\* the second PUT in flight after the first one returned a failure
C9_Witness ==
    /\ pc = "Updating"
    /\ Len(puts) = 2
    /\ Len(outcomes) = 1
    /\ outcomes[1] # HttpOk
    /\ puts[1].body.id # puts[2].body.id

(***************************************************************************)
(* C10: a cycle issues exactly one cpr::Get and either no PUT or exactly   *)
(* N PUTs, one per configured entry; PUTs are in flight only for an        *)
(* address that differs from old_ip_address, and every PUT carries the     *)
(* address extracted from that cycle's cpr::Get answer.                    *)
(***************************************************************************)
C10_CallsPerCycle ==
    /\ (cycle.kind # "none" => gets = 1)
    /\ (pc = "Updating" => ip_address # old_ip_address)
    /\ \A k \in 1..Len(puts) : puts[k].body.content = ParseIp(response.text)
    /\ \A j, k \in 1..Len(puts) : j # k => puts[j].url # puts[k].url
    /\ (CycleOver => Len(puts) \in {0, Len(entries)})

(***************************************************************************)
(* C11: a cycle (the cpr::Get and the PUTs after it) starts only when the  *)
(* time elapsed since timer_start is at least update_rate seconds, the     *)
(* first cycle after startup included.                                     *)
(***************************************************************************)
C11_StartsOnlyAfterInterval ==
    [][ (pc = "Waiting" /\ pc' = "Resolving") => elapsed >= update_rate ]_vars

(***************************************************************************)
(* C11, amended: every cycle but the first one after startup starts only   *)
(* when the time elapsed since timer_start is at least update_rate         *)
(* seconds, and while it is less the loop stays at the timer test and      *)
(* issues no cpr::Get and no PUT; the first cycle (first_run) is not held  *)
(* back by the timer test.                                                 *)
(***************************************************************************)
C11_StartsOnlyAfterIntervalButFirst ==
    [][ /\ (pc = "Waiting" /\ pc' = "Resolving" /\ ~first_run) =>
               elapsed >= update_rate
        /\ (pc = "Waiting" /\ ~first_run /\ elapsed < update_rate) =>
               (pc' = "Waiting" /\ gets' = gets /\ puts' = puts
                /\ outcomes' = outcomes /\ cycle' = cycle) ]_vars

\* a second cycle under way with a polling interval of two seconds or more
C11_Witness ==
    /\ pc = "Resolving"
    /\ prev.kind # "none"
    /\ update_rate >= 2
    /\ ~first_run

(***************************************************************************)
(* C12: under persistent failure (no batch so far without a failed PUT;    *)
(* TTLs convertible, every 200 answer of the resolver carrying an address) *)
(* old_ip_address keeps its value and the loop keeps retrying: the process *)
(* is alive, and every cycle that resolved an address other than           *)
(* old_ip_address sent a full batch for it.                                *)
(***************************************************************************)
C12_PersistentFailureRetries ==
    (persistent /\ cause \notin {"config", "load", "resolver"}) =>
        /\ old_ip_address = Baseline
        /\ pc # "terminated"
        /\ (CycleOver /\ cycle.kind \notin {"unchanged", "resolver_failed"}) =>
               /\ Len(puts) = Len(entries)
               /\ \A k \in 1..Len(puts) :
                      /\ AddressesEntry(puts[k], entries[k])
                      /\ puts[k].body.content = cycle.ip

(***************************************************************************)
(* C13: when LoadData returns false the process exits before the loop:     *)
(* from then on it stays exited, no cpr::Get and no PUT is ever issued,    *)
(* no cycle runs and the load is not tried again.                          *)
(***************************************************************************)
C13_LoadFailureExits ==
    cause = "load" =>
        /\ pc = "exited"
        /\ gets = 0
        /\ puts = << >>
        /\ outcomes = << >>
        /\ cycle = NoCycle
        /\ first_run
        /\ entries = << >>

C13_Witness == pc = "exited" /\ cause = "load" /\ update_rate >= 1

\* the step in which a cycle starts: the timer test is passed or skipped
CycleStarts == pc = "Waiting" /\ pc' = "Resolving"

\* the step in which a cycle ends and the loop is back at the timer test
CycleReturns == pc \in {"Resolving", "Updating"} /\ pc' = "Waiting"

(***************************************************************************)
(* C14: every cycle, whatever its outcome, returns to the timer test with  *)
(* timer_start set to the time of that return, so that the next cycle      *)
(* starts no earlier than update_rate seconds after the cycle finished.    *)
(***************************************************************************)
C14_AnchorResetOnReturn ==
    [][ /\ CycleReturns => elapsed' = 0
        /\ (CycleStarts /\ ~first_run) => sinceEnd >= update_rate ]_vars

(***************************************************************************)
(* C14, amended: timer_start is set when a cycle other than the first      *)
(* starts (as the timer test passes, before cpr::Get), and is left alone   *)
(* when the first cycle starts and when any cycle returns to the timer     *)
(* test; so a cycle other than the first starts no earlier than            *)
(* update_rate seconds after timer_start was last set, which is the start  *)
(* of the cycle before it (startup, for the second cycle), not its end.    *)
(***************************************************************************)
C14_AnchorResetOnStart ==
    [][ /\ (CycleStarts /\ ~first_run) =>
               (elapsed >= update_rate /\ elapsed' = 0)
        /\ (CycleStarts /\ first_run) => elapsed' = elapsed
        /\ CycleReturns => elapsed' = elapsed ]_vars

\* a third or later cycle under way that started in the very second in
\* which the cycle before it ended, one full interval after that one began
C14_Witness ==
    /\ pc = "Resolving"
    /\ prev.kind \in {"committed", "rolled_back"}
    /\ update_rate >= 2
    /\ elapsed = 0
    /\ sinceEnd = 0

(***************************************************************************)
(* C15: whenever the loop is at the timer test, between cycles,            *)
(* ip_address is "invalid" or equal to old_ip_address: it never holds an   *)
(* address that was resolved but not committed.                            *)
(***************************************************************************)
C15_ObservedIsSentinelOrCommitted ==
    pc = "Waiting" => (ip_address = Invalid \/ ip_address = old_ip_address)

\* between cycles after a commit (ip_address = old_ip_address, a real
\* address) that followed a rolled-back batch for another address
C15_Witness ==
    /\ pc = "Waiting"
    /\ prev = Outcome("rolled_back", "5.6.7.8")
    /\ cycle = Outcome("committed", "1.2.3.4")
    /\ ip_address = "1.2.3.4"
    /\ ip_address = old_ip_address

\* between cycles after a rolled-back batch: the sentinel, not the
\* resolved address, beside an older committed address
C15_WitnessRolledBack ==
    /\ pc = "Waiting"
    /\ cycle.kind = "rolled_back"
    /\ ip_address = Invalid
    /\ old_ip_address \notin {Baseline, cycle.ip}

\* the latest cpr::Get answered 200 with address ip, every PUT of the cycle
\* that returned answered 200, and every configured TTL converts
AllGoesWell(ip) ==
    /\ pc \notin {"start", "exited"}
    /\ response = [status_code |-> HttpOk, text |-> EchoBody(ip)]
    /\ AllSucceeded(outcomes)
    /\ \A k \in 1..Len(entries) : ~StoiThrows(entries[k].ttl)

(***************************************************************************)
(* C16: if every call returns and the clock advances, and from some point  *)
(* on cpr::Get always answers 200 with the address 1.2.3.4 and every PUT   *)
(* answers 200, then from some point on old_ip_address is 1.2.3.4 and no   *)
(* PUT is in flight any more.                                              *)
(***************************************************************************)
C16_EventuallyCommitted ==
    <>[]AllGoesWell("1.2.3.4") =>
        <>[](old_ip_address = "1.2.3.4" /\ pc \in {"Waiting", "Resolving"})

(***************************************************************************)
(* C17: DebugOutput changes only what is logged.  Two runs that differ in  *)
(* the flag alone and receive the same answers stay in step as long as     *)
(* every step treats them alike, and the flag is read by the loop only     *)
(* where the answer of a PUT is handled; so the claim is that, whenever a  *)
(* PUT is in flight, every answer is handled alike with the flag on and    *)
(* off: it terminates the process in both runs or in neither.              *)
(***************************************************************************)
C17_DebugOnlyLogs ==
    pc = "Updating" =>
        \A post \in PutResponses :
            PutHandlingThrows(DebugOutput, post)
                = PutHandlingThrows(~DebugOutput, post)

\* some configured entry has a ttl that std::stoi cannot convert
HasBadTtl == \E k \in 1..Len(entries) : StoiThrows(entries[k].ttl)

(***************************************************************************)
(* C18: the requests of a batch are all built, TTL conversion included,    *)
(* before the first PUT is sent: while a PUT is in flight payload and      *)
(* records hold one request per configured entry.  So with a TTL that does *)
(* not convert no PUT is ever sent, not even for the entries before the    *)
(* bad one, old_ip_address never advances, and the first cycle that        *)
(* resolves a changed address ends in the exception of std::stoi.          *)
(***************************************************************************)
C18_BuiltBeforeFirstPut ==
    /\ pc = "Updating" =>
           /\ Len(payload) = Len(entries)
           /\ Len(records) = Len(entries)
           /\ \A k \in 1..Len(entries) :
                  /\ payload[k].id = entries[k].token
                  /\ payload[k].content = ip_address
                  /\ ~StoiThrows(entries[k].ttl)
    /\ HasBadTtl =>
           /\ pc # "Updating"
           /\ puts = << >>
           /\ outcomes = << >>
           /\ old_ip_address = Baseline
    /\ (HasBadTtl /\ CycleOver /\ cycle.ip \notin {"", old_ip_address}) =>
           (pc = "terminated" /\ cause = "config")

\* the second of two entries has the bad ttl: the request of the first was
\* built, and was never sent
C18_Witness ==
    /\ pc = "terminated"
    /\ cause = "config"
    /\ Len(entries) = 2
    /\ ~StoiThrows(entries[1].ttl)
    /\ StoiThrows(entries[2].ttl)
    /\ Len(payload) = 1
    /\ puts = << >>
    /\ old_ip_address = Baseline

(***************************************************************************)
(* C19: with no entry configured, a cycle that resolves an address other   *)
(* than old_ip_address sends no PUT and commits: old_ip_address becomes    *)
(* the resolved address and the loop is back at the timer test.            *)
(***************************************************************************)
C19_EmptyConfigCommits ==
    [][ ( /\ GetReturned
          /\ entries = << >>
          /\ response'.status_code = HttpOk
          /\ ~ParseIpThrows(response'.text)
          /\ ParseIp(response'.text) # old_ip_address ) =>
          /\ pc' = "Waiting"
          /\ puts' = << >>
          /\ outcomes' = << >>
          /\ old_ip_address' = ParseIp(response'.text)
          /\ ip_address' = old_ip_address' ]_vars

\* a second vacuous commit, from one real address to another
C19_Witness ==
    /\ pc = "Waiting"
    /\ entries = << >>
    /\ prev = Outcome("committed", "1.2.3.4")
    /\ cycle = Outcome("committed", "5.6.7.8")
    /\ old_ip_address = "5.6.7.8"
    /\ puts = << >>

====
